---- MODULE Spec2Model ----
(***************************************************************************)
(* A model of the setlist predictor: the rate-limited HTTP client, the     *)
(* artist search, the setlist pagination and the row normaliser of         *)
(* fetch_setlists.py, and the Markov chain builder and generator of        *)
(* markov_model.py.                                                        *)
(*                                                                         *)
(* Each component has its own specification (SpecClient, SpecResolver,     *)
(* SpecPaginator, SpecFlatten, SpecBuild, SpecGenerate); the variables of  *)
(* the other components stay at their idle values.                         *)
(*                                                                         *)
(* Text is modelled as a sequence of one-character strings, so that        *)
(* split, lower, startswith, "in" and the ordering of str are computed.    *)
(* Times are in milliseconds. A probability count / total is the pair      *)
(* <<count, total>>.                                                       *)
(***************************************************************************)
EXTENDS Integers, Sequences, FiniteSets, TLC

VARIABLES
    \* get_with_backoff
    url, params, attempt, delay, cpc, outcome, reqlog, resplog, sleeps,
    \* fetch_all_setlists_for_artist
    mbid, hpage, all_setlists, hpc, pagelog, lastdata, pauses,
    \* search_artist
    artist_name, spage, artists, candidates, rpc, searchlog, chosen, choice,
    presented,
    \* normalize_setlist_to_rows
    setlist, rows, npc,
    \* build_markov_chain, most_common_opener
    df, transitions, bpc, opener,
    \* generate_setlist
    gtransitions, start_song, length, gsetlist, current, gpc,
    \* main
    mpc,
    \* load_setlists
    csv, ldf, lpc

clientVars == <<url, params, attempt, delay, cpc, outcome, reqlog, resplog, sleeps>>

historyVars == <<mbid, hpage, all_setlists, hpc, pagelog, lastdata, pauses>>

searchVars ==
    <<artist_name, spage, artists, candidates, rpc, searchlog, chosen, choice,
      presented>>

flattenVars == <<setlist, rows, npc>>

buildVars == <<df, transitions, bpc, opener>>

generateVars == <<gtransitions, start_song, length, gsetlist, current, gpc>>

mainVars == <<mpc>>

loadVars == <<csv, ldf, lpc>>

vars ==
    <<clientVars, historyVars, searchVars, flattenVars, buildVars, generateVars,
      mainVars, loadVars>>

\* What each component leaves alone: the variables of the others.
exceptClient ==
    <<historyVars, searchVars, flattenVars,
      buildVars, generateVars, mainVars, loadVars>>

exceptHistory ==
    <<clientVars, searchVars, flattenVars,
      buildVars, generateVars, mainVars, loadVars>>

exceptSearch ==
    <<clientVars, historyVars, flattenVars,
      buildVars, generateVars, mainVars, loadVars>>

exceptFlatten ==
    <<clientVars, historyVars, searchVars,
      buildVars, generateVars, mainVars, loadVars>>

exceptBuild ==
    <<clientVars, historyVars, searchVars,
      flattenVars, generateVars, mainVars, loadVars>>

exceptGenerate ==
    <<clientVars, historyVars, searchVars,
      flattenVars, buildVars, mainVars, loadVars>>

----------------------------------------------------------------------------
(* Bounds of the model *)

\* The page numbers a request may carry are 1..MaxPages.
MaxPages == 3

\* A page of the setlists endpoint holds at most MaxPageLen records.
MaxPageLen == 2

\* The event dates tried are the texts of at most MaxDateLen characters
\* (and two longer samples).
MaxDateLen == 5

\* A setlist has at most MaxBlocks sets of at most MaxSongs songs each.
MaxBlocks == 2

MaxSongs == 2

\* A page of search results is one of the lists of at most MaxArtists
\* artists, alone or followed by a fixed list of TopN - 1 more.
MaxArtists == 3

\* The data frame holds at most MaxShows shows of at most MaxShowLen songs.
MaxShows == 2

MaxShowLen == 3

\* The most frequent opener is looked for among up to MaxOpeners shows.
MaxOpeners == 3

\* A CSV file read holds at most MaxCsvRows rows (or the rows of that many
\* setlists).
MaxCsvRows == 2

\* A song is followed by a given song at most MaxCount times in the tables
\* walked, and at most MaxLength songs are asked for.
MaxCount == 2

MaxLength == 4

----------------------------------------------------------------------------
(* General helpers *)

\* The sequences over S of length at most n
SeqsUpTo(S, n) == UNION {[1..k -> S] : k \in 0..n}

Last(s) == s[Len(s)]

RECURSIVE Pow2(_)
Pow2(n) == IF n = 0 THEN 1 ELSE 2 * Pow2(n - 1)

----------------------------------------------------------------------------
(* get_with_backoff (fetch_setlists.py 30-51) *)

\* max_retries=5, the default no caller overrides
max_retries == 5

\* delay = 0.5 seconds
StartDelayMs == 500

\* The status codes the server may answer with.
Statuses == {200, 302, 404, 429, 500}

Urls == {"search/artists", "artist/setlists"}

NoOutcome == [kind |-> "none", status |-> 0]

\* resp.status_code != 429, negated
ClientRetryOnAnyFailure(status) == status >= 400
ClientIsRateLimited(status) == status = 429

\* requests' Response.raise_for_status: an HTTPError for 400 <= status < 600
RaisesForStatus(status) == 400 <= status /\ status < 600

\* delay *= 2
ClientAddDelay(d) == d + StartDelayMs
ClientNextDelay(d) == d * 2

\* for attempt in range(max_retries)
ClientLoopOffByOne(a) == a <= max_retries
ClientLoopContinues(a) == a < max_retries

ClientInit ==
    /\ url \in Urls
    /\ params \in [p : 1..MaxPages]
    /\ attempt = 0
    /\ delay = StartDelayMs
    /\ cpc = "for"
    /\ outcome = NoOutcome
    /\ reqlog = <<>>
    /\ resplog = <<>>
    /\ sleeps = <<>>

ClientIdle ==
    /\ url = "search/artists"
    /\ params = [p |-> 1]
    /\ attempt = 0
    /\ delay = StartDelayMs
    /\ cpc = "idle"
    /\ outcome = NoOutcome
    /\ reqlog = <<>>
    /\ resplog = <<>>
    /\ sleeps = <<>>

\* One pass of the loop body up to the sleep: session.get, then return,
\* raise, or go on to the backoff.
SessionGet ==
    /\ cpc = "for"
    /\ ClientLoopContinues(attempt)
    /\ \E status \in Statuses :
        /\ reqlog' = Append(reqlog, [url |-> url, params |-> params])
        /\ resplog' = Append(resplog, status)
        /\ IF ~ClientIsRateLimited(status)
           THEN IF RaisesForStatus(status)
                THEN /\ cpc' = "raised"
                     /\ outcome' = [kind |-> "HTTPError", status |-> status]
                ELSE /\ cpc' = "returned"
                     /\ outcome' = [kind |-> "response", status |-> status]
           ELSE /\ cpc' = "sleep"
                /\ outcome' = outcome
    /\ UNCHANGED <<url, params, attempt, delay, sleeps>>
    /\ UNCHANGED exceptClient

\* time.sleep(delay); delay *= 2; and the loop's next attempt
Backoff ==
    /\ cpc = "sleep"
    /\ sleeps' = Append(sleeps, delay)
    /\ delay' = ClientNextDelay(delay)
    /\ attempt' = attempt + 1
    /\ cpc' = "for"
    /\ UNCHANGED <<url, params, outcome, reqlog, resplog>>
    /\ UNCHANGED exceptClient

\* The loop is exhausted: raise RuntimeError("Too many 429 responses ...")
GiveUp ==
    /\ cpc = "for"
    /\ ~ClientLoopContinues(attempt)
    /\ cpc' = "raised"
    /\ outcome' = [kind |-> "RuntimeError", status |-> 0]
    /\ UNCHANGED <<url, params, attempt, delay, reqlog, resplog, sleeps>>
    /\ UNCHANGED exceptClient

ClientNext == SessionGet \/ Backoff \/ GiveUp

----------------------------------------------------------------------------
(* fetch_all_setlists_for_artist (fetch_setlists.py 157-194) *)

\* The setlist records the API may return, by id.
RecordIds == {"s1", "s2"}

\* The JSON body of a page: "setlist", and the optional "total" and
\* "itemsPerPage" (has* is FALSE when the key is absent).
PageBodies ==
    [setlist : SeqsUpTo(RecordIds, MaxPageLen),
     hasTotal : BOOLEAN, total : {0, 1000},
     hasItemsPerPage : BOOLEAN, itemsPerPage : 0..(MaxPageLen + 1)]

\* Only the values of present keys distinguish two bodies.
PageData ==
    {d \in PageBodies :
        /\ ~d.hasTotal => d.total = 0
        /\ ~d.hasItemsPerPage => d.itemsPerPage = 0}

NoData ==
    [setlist |-> <<>>, hasTotal |-> FALSE, total |-> 0,
     hasItemsPerPage |-> FALSE, itemsPerPage |-> 0]

\* int(data.get("total", len(all_setlists)))
HistoryTotal(data, acc) == IF data.hasTotal THEN data.total ELSE Len(acc)

\* int(data.get("itemsPerPage", len(page_setlists)))
HistoryItemsPerPage(data) ==
    IF data.hasItemsPerPage THEN data.itemsPerPage ELSE Len(data.setlist)

\* if len(page_setlists) < items_per_page: break
HistoryStopsAtTotal(n, items_per_page, total, fetched) ==
    n < items_per_page /\ fetched >= total
HistoryIsLastPage(n, items_per_page, total, fetched) == n < items_per_page

\* all_setlists.extend(page_setlists)
RECURSIVE HistoryExtendNew(_, _)
HistoryExtendNew(acc, page) ==
    IF page = <<>> THEN acc
    ELSE IF \E i \in 1..Len(acc) : acc[i] = Head(page)
         THEN HistoryExtendNew(acc, Tail(page))
         ELSE HistoryExtendNew(Append(acc, Head(page)), Tail(page))
HistoryExtend(acc, page) == acc \o page

HistoryInit ==
    /\ mbid \in {"mbid-1"}
    /\ hpage = 1
    /\ all_setlists = <<>>
    /\ hpc = "fetch"
    /\ pagelog = <<>>
    /\ lastdata = NoData
    /\ pauses = 0

HistoryIdle ==
    /\ mbid = "mbid-1"
    /\ hpage = 1
    /\ all_setlists = <<>>
    /\ hpc = "idle"
    /\ pagelog = <<>>
    /\ lastdata = NoData
    /\ pauses = 0

\* One pass of the while loop: the page is requested and answered.
FetchPage ==
    /\ hpc = "fetch"
    /\ hpage <= MaxPages
    /\ pagelog' = Append(pagelog, [mbid |-> mbid, p |-> hpage])
    /\ \E data \in PageData :
        LET page_setlists == data.setlist
            acc == HistoryExtend(all_setlists, page_setlists)
        IN  /\ lastdata' = data
            /\ IF page_setlists = <<>>
               THEN /\ hpc' = "done"
                    /\ UNCHANGED <<all_setlists, hpage, pauses>>
               ELSE /\ all_setlists' = acc
                    /\ IF HistoryIsLastPage(Len(page_setlists),
                                            HistoryItemsPerPage(data),
                                            HistoryTotal(data, acc), Len(acc))
                       THEN /\ hpc' = "done"
                            /\ UNCHANGED <<hpage, pauses>>
                       ELSE /\ hpage' = hpage + 1
                            /\ pauses' = pauses + 1
                            /\ hpc' = "fetch"
    /\ UNCHANGED mbid
    /\ UNCHANGED exceptHistory

\* get_with_backoff raises (HTTPError or RuntimeError): the exception leaves
\* fetch_all_setlists_for_artist.
FetchPageRaises ==
    /\ hpc = "fetch"
    /\ hpage <= MaxPages
    /\ pagelog' = Append(pagelog, [mbid |-> mbid, p |-> hpage])
    /\ hpc' = "raised"
    /\ UNCHANGED <<mbid, hpage, all_setlists, lastdata, pauses>>
    /\ UNCHANGED exceptHistory

HistoryNext == FetchPage \/ FetchPageRaises

----------------------------------------------------------------------------
(* JSON values *)

\* A JSON value that the code treats as a scalar: its kind k ("absent" for a
\* missing key, "null", "str", "int", "list" for a non-empty list), the
\* text s of a str and the number n of an int.
JV(k, s, n) == [k |-> k, s |-> s, n |-> n]

JAbsent == JV("absent", <<>>, 0)

JNull == JV("null", <<>>, 0)

JStr(s) == JV("str", s, 0)

JInt(n) == JV("int", <<>>, n)

JList == JV("list", <<>>, 0)

\* dict.get(key): None for a missing key
Get(v) == IF v.k = "absent" THEN JNull ELSE v

\* The truth value of a Python object
Truthy(v) ==
    CASE v.k \in {"absent", "null"} -> FALSE
      [] v.k = "str" -> v.s /= <<>>
      [] v.k = "int" -> v.n /= 0
      [] OTHER -> TRUE

\* (obj or {}).get(field) of an object [k, field...]: None unless obj is a
\* dict holding the field. A truthy obj that is no dict has no .get.
OrEmptyGet(obj, field) == IF obj.k = "dict" THEN Get(obj[field]) ELSE JNull

NoGetMethod(obj) == obj.k \notin {"absent", "null", "dict"}

----------------------------------------------------------------------------
(* normalize_setlist_to_rows (fetch_setlists.py 196-278) *)

Digits == {"0", "1", "2", "3", "4", "5", "6", "7", "8", "9"}

DigitValue(c) ==
    CASE c = "0" -> 0 [] c = "1" -> 1 [] c = "2" -> 2 [] c = "3" -> 3
      [] c = "4" -> 4 [] c = "5" -> 5 [] c = "6" -> 6 [] c = "7" -> 7
      [] c = "8" -> 8 [] c = "9" -> 9

\* str.split("-")
RECURSIVE SplitDash(_)
SplitDash(s) ==
    IF s = <<>> THEN << <<>> >>
    ELSE LET rest == SplitDash(Tail(s))
         IN  IF Head(s) = "-"
             THEN << <<>> >> \o rest
             ELSE << <<Head(s)>> \o Head(rest) >> \o Tail(rest)

\* if event_date_raw: try: day, month, year = event_date_raw.split("-");
\* show_date = f"{year}-{month}-{day}"; except ValueError: show_date =
\* event_date_raw; else: show_date = None
ShowDate(raw) ==
    IF Truthy(raw)
    THEN LET parts == SplitDash(raw.s)
         IN  IF Len(parts) = 3
             THEN JStr(parts[3] \o <<"-">> \o parts[2] \o <<"-">> \o parts[1])
             ELSE raw
    ELSE JNull

\* event_date_raw.split of a truthy value that is no str: AttributeError
DateRaises(raw) == Truthy(raw) /\ raw.k /= "str"

\* int(encore_raw) of a str: the decimal digits (a sign, blanks and
\* underscores are not in the texts tried)
IsIntLiteral(s) == s /= <<>> /\ \A i \in 1..Len(s) : s[i] \in Digits

RECURSIVE ParseInt(_)
ParseInt(s) ==
    IF s = <<>> THEN 0
    ELSE 10 * ParseInt(SubSeq(s, 1, Len(s) - 1)) + DigitValue(s[Len(s)])

\* encore_raw = s.get("@encore"); int(encore_raw), None on ValueError
EncoreIndex(raw) ==
    CASE raw.k = "int" -> JInt(raw.n)
      [] raw.k = "str" /\ IsIntLiteral(raw.s) -> JInt(ParseInt(raw.s))
      [] OTHER -> JNull

\* int() of a list (or a dict) raises TypeError, which is not caught
EncoreRaises(raw) == raw.k \notin {"null", "str", "int"}

\* A repeated field (the sets of a setlist, the songs of a set) is
\* [k, items]: k = "list" with its items, k = "dict" for a single object
\* (items holds it), or "absent", "null" or "str" (a non-empty text) or "int".
\* .get(key, []) and: if isinstance(x, dict): x = [x]
CoerceNoWrap(field) ==
    CASE field.k = "absent" -> [k |-> "list", items |-> <<>>]
      [] field.k = "dict" -> [k |-> "str", items |-> <<>>]
      [] OTHER -> field
OneOrMany(field) ==
    CASE field.k = "absent" -> [k |-> "list", items |-> <<>>]
      [] field.k = "dict" -> [k |-> "list", items |-> field.items]
      [] OTHER -> field

\* enumerate(x) of None raises TypeError; the items of a str are str and
\* have no .get: AttributeError
IterationError(many) ==
    CASE many.k \in {"null", "int"} -> "TypeError"
      [] many.k = "str" -> "AttributeError"
      [] OTHER -> "none"

Raised(e) == [raised |-> e, rows |-> <<>>]

Returned(rs) == [raised |-> "none", rows |-> rs]

\* The fields of a row that come from the setlist's own data.
ShowFields(sl) ==
    LET venue_obj == sl.venue
        city_obj == IF venue_obj.k = "dict" THEN venue_obj.city
                    ELSE [k |-> "absent"]
        state == OrEmptyGet(city_obj, "state")
        country_obj == IF city_obj.k = "dict" THEN city_obj.country
                       ELSE [k |-> "absent"]
    IN  [show_id |-> Get(sl.id),
         show_date |-> ShowDate(Get(sl.eventDate)),
         artist_name |-> OrEmptyGet(sl.artist, "name"),
         venue |-> OrEmptyGet(venue_obj, "name"),
         city |-> OrEmptyGet(city_obj, "name"),
         state |-> IF Truthy(state) THEN state
                   ELSE OrEmptyGet(city_obj, "stateCode"),
         country |-> OrEmptyGet(country_obj, "name"),
         tour_name |-> OrEmptyGet(sl.tour, "name"),
         festival_flag |-> IF OrEmptyGet(sl.tour, "festival") = JStr(<<"t", "r", "u", "e">>)
                           THEN 1 ELSE 0]

\* An AttributeError before the sets are read
ShowFieldsRaise(sl) ==
    \/ DateRaises(Get(sl.eventDate))
    \/ NoGetMethod(sl.artist)
    \/ NoGetMethod(sl.venue)
    \/ sl.venue.k = "dict" /\ NoGetMethod(sl.venue.city)
    \/ sl.venue.k = "dict" /\ sl.venue.city.k = "dict"
          /\ NoGetMethod(sl.venue.city.country)
    \/ NoGetMethod(sl.tour)
    \/ NoGetMethod(sl.sets)

\* rows.append({...})
Row(show, set_index, encore_index, song_index, song) ==
    LET cover == song.cover
        is_dict == cover.k = "dict"
    IN  [show_id |-> show.show_id,
         show_date |-> show.show_date,
         city |-> show.city,
         state |-> show.state,
         country |-> show.country,
         venue |-> show.venue,
         artist_name |-> show.artist_name,
         tour_name |-> show.tour_name,
         festival_flag |-> show.festival_flag,
         set_index |-> set_index,
         song_index |-> song_index,
         song_name |-> Get(song.name),
         is_cover |-> IF is_dict THEN 1 ELSE 0,
         cover_artist |-> IF is_dict THEN Get(cover.name) ELSE JNull,
         encore_index |-> encore_index]

\* enumerate(...): the index that goes with the i-th item (i = 1, 2, ...)
EnumerateFromOne(i) == i
Enumerate(i) == i - 1

\* for song_index, song in enumerate(songs), from the i-th song on
RECURSIVE SongLoop(_, _, _, _, _, _)
SongLoop(show, set_index, encore_index, songs, i, acc) ==
    IF i > Len(songs) THEN Returned(acc)
    ELSE IF songs[i].k /= "dict" THEN Raised("AttributeError")
    ELSE SongLoop(show, set_index, encore_index, songs, i + 1,
                  Append(acc, Row(show, set_index, encore_index, Enumerate(i), songs[i])))

\* for set_index, s in enumerate(sets_obj), from the j-th set on
RECURSIVE SetLoop(_, _, _, _)
SetLoop(show, blocks, j, acc) ==
    IF j > Len(blocks) THEN Returned(acc)
    ELSE LET s == blocks[j] IN
         IF s.k /= "dict" THEN Raised("AttributeError")
         ELSE LET encore_raw == Get(s.encore)
                  songs == OneOrMany(s.song)
              IN  IF EncoreRaises(encore_raw) THEN Raised("TypeError")
                  ELSE IF IterationError(songs) /= "none"
                       THEN Raised(IterationError(songs))
                  ELSE LET r == SongLoop(show, Enumerate(j), EncoreIndex(encore_raw),
                                         songs.items, 1, acc)
                       IN  IF r.raised /= "none" THEN r
                           ELSE SetLoop(show, blocks, j + 1, r.rows)

\* normalize_setlist_to_rows(setlist): the rows returned, or the exception
normalize_setlist_to_rows(sl) ==
    IF ShowFieldsRaise(sl) THEN Raised("AttributeError")
    ELSE LET sets_obj == OneOrMany(IF sl.sets.k = "dict" THEN sl.sets.set
                                   ELSE [k |-> "absent", items |-> <<>>])
         IN  IF IterationError(sets_obj) /= "none"
             THEN Raised(IterationError(sets_obj))
             ELSE SetLoop(ShowFields(sl), sets_obj.items, 1, <<>>)

(* The setlists tried *)

GoodDate == <<"2", "1", "-", "0", "5", "-", "2", "0", "2", "3">>

NotADate == <<"n", "o", "t", "-", "a", "-", "d", "a", "t", "e">>

DateTexts == SeqsUpTo({"1", "-", "x"}, MaxDateLen) \cup {GoodDate, NotADate}

DateValues ==
    {JAbsent, JNull, JInt(0), JInt(21052023)} \cup {JStr(t) : t \in DateTexts}

NoCover == [k |-> "absent", name |-> JAbsent]

Covers ==
    {NoCover, [k |-> "null", name |-> JAbsent], [k |-> "str", name |-> JAbsent],
     [k |-> "dict", name |-> JAbsent], [k |-> "dict", name |-> JStr(<<"X">>)]}

Song(name, cover) == [k |-> "dict", name |-> name, cover |-> cover]

\* A song entry that is no object: a text or a null in the list
NotASong(kind) == [k |-> kind, name |-> JAbsent, cover |-> NoCover]

SimpleSongs ==
    {Song(JStr(<<"A">>), NoCover),
     Song(JStr(<<"B">>), [k |-> "dict", name |-> JStr(<<"X">>)])}

SongEntries ==
    {Song(n, c) : n \in {JStr(<<"A">>), JAbsent}, c \in Covers}
        \cup {NotASong("str"), NotASong("null")}

Many(kind, items) == [k |-> kind, items |-> items]

\* The shapes of a repeated field holding at most one entry of Entries
FieldShapes(Entries) ==
    {Many("absent", <<>>), Many("null", <<>>), Many("str", <<>>),
     Many("int", <<>>), Many("list", <<>>)}
        \cup {Many("list", <<e>>) : e \in Entries}
        \cup {Many("dict", <<e>>) : e \in {x \in Entries : x.k = "dict"}}

Block(encore, song) == [k |-> "dict", encore |-> encore, song |-> song]

NotABlock(kind) == [k |-> kind, encore |-> JAbsent, song |-> Many("absent", <<>>)]

SimpleBlocks ==
    {Block(e, Many("list", ss)) :
        e \in {JAbsent, JInt(1)}, ss \in SeqsUpTo(SimpleSongs, MaxSongs)}

EncoreValues ==
    {JAbsent, JNull, JInt(2), JList, JStr(<<>>), JStr(<<"1">>),
     JStr(<<"1", "2">>), JStr(<<"x">>)}

ShapeBlocks ==
    {Block(e, f) : e \in EncoreValues, f \in FieldShapes(SongEntries)}
        \cup {NotABlock("str"), NotABlock("null")}

Sets(kind, field) == [k |-> kind, set |-> field]

Named(kind, name) == [k |-> kind, name |-> name]

City(kind, state, stateCode, country) ==
    [k |-> kind, name |-> JStr(<<"c">>), state |-> state,
     stateCode |-> stateCode, country |-> country]

Venue(kind, city) == [k |-> kind, name |-> JStr(<<"v">>), city |-> city]

Tour(kind, festival) ==
    [k |-> kind, name |-> JStr(<<"t">>), festival |-> festival]

ObjectKinds == {"absent", "null", "dict", "str"}

BaseSetlist ==
    [id |-> JStr(<<"i">>),
     eventDate |-> JStr(GoodDate),
     artist |-> Named("dict", JStr(<<"a">>)),
     venue |-> Venue("dict", City("dict", JStr(<<"s">>), JStr(<<"S">>),
                                  Named("dict", JStr(<<"n">>)))),
     tour |-> Tour("dict", JAbsent),
     sets |-> Sets("dict", Many("list",
                 <<Block(JAbsent, Many("list", <<Song(JStr(<<"A">>), NoCover)>>))>>))]

\* Every event date, with one set of one song
DateSetlists == {[BaseSetlist EXCEPT !.eventDate = d] : d \in DateValues}

\* Every list of sets of songs, well-shaped
StructureSetlists ==
    {[BaseSetlist EXCEPT !.sets = Sets("dict", Many("list", bs))] :
        bs \in SeqsUpTo(SimpleBlocks, MaxBlocks)}

\* Every shape of the sets, of one set and of one song
ShapeSetlists ==
    {[BaseSetlist EXCEPT !.sets = Sets(kind, Many("absent", <<>>))] :
        kind \in ObjectKinds}
        \cup {[BaseSetlist EXCEPT !.sets = Sets("dict", f)] :
                f \in FieldShapes(ShapeBlocks)}

\* The shapes of the artist, venue, city, country and tour
MetaSetlists ==
    {[BaseSetlist EXCEPT !.artist = Named(a, JStr(<<"a">>)),
                         !.tour = Tour(t, f),
                         !.venue = Venue("dict", City("dict", st, JStr(<<"S">>), Named(c, JAbsent)))] :
        a \in ObjectKinds, t \in ObjectKinds,
        f \in {JAbsent, JStr(<<"t", "r", "u", "e">>), JStr(<<"f">>)},
        st \in {JAbsent, JStr(<<>>), JStr(<<"s">>)}, c \in ObjectKinds}
        \cup {[BaseSetlist EXCEPT !.venue = Venue(v, City(ci, JAbsent, JAbsent, Named("dict", JAbsent)))] :
                v \in ObjectKinds, ci \in ObjectKinds}

Setlists == DateSetlists \cup StructureSetlists \cup ShapeSetlists \cup MetaSetlists

FlattenInit ==
    /\ setlist \in Setlists
    /\ rows = Returned(<<>>)
    /\ npc = "call"

\* rows = normalize_setlist_to_rows(sl), or the exception it raises
Normalize ==
    /\ npc = "call"
    /\ rows' = normalize_setlist_to_rows(setlist)
    /\ npc' = "done"
    /\ UNCHANGED setlist
    /\ UNCHANGED exceptFlatten

FlattenNext == Normalize

----------------------------------------------------------------------------
(* Text: str.lower, ==, startswith, in, and the order of str *)

\* c.lower() of the capital letters
LowerOfUpper ==
    ("A" :> "a") @@ ("B" :> "b") @@ ("C" :> "c") @@ ("D" :> "d") @@
    ("E" :> "e") @@ ("F" :> "f") @@ ("G" :> "g") @@ ("H" :> "h") @@
    ("I" :> "i") @@ ("J" :> "j") @@ ("K" :> "k") @@ ("L" :> "l") @@
    ("M" :> "m") @@ ("N" :> "n") @@ ("O" :> "o") @@ ("P" :> "p") @@
    ("Q" :> "q") @@ ("R" :> "r") @@ ("S" :> "s") @@ ("T" :> "t") @@
    ("U" :> "u") @@ ("V" :> "v") @@ ("W" :> "w") @@ ("X" :> "x") @@
    ("Y" :> "y") @@ ("Z" :> "z")

LowerChar(c) == IF c \in DOMAIN LowerOfUpper THEN LowerOfUpper[c] ELSE c

\* str.lower()
RECURSIVE Lower(_)
Lower(t) == IF t = <<>> THEN <<>> ELSE <<LowerChar(Head(t))>> \o Lower(Tail(t))

\* ord(c), for the blank and the letters
CodePoint ==
    (" " :> 32) @@ ("A" :> 65) @@ ("B" :> 66) @@ ("C" :> 67) @@
    ("D" :> 68) @@ ("E" :> 69) @@ ("F" :> 70) @@ ("G" :> 71) @@
    ("H" :> 72) @@ ("I" :> 73) @@ ("J" :> 74) @@ ("K" :> 75) @@
    ("L" :> 76) @@ ("M" :> 77) @@ ("N" :> 78) @@ ("O" :> 79) @@
    ("P" :> 80) @@ ("Q" :> 81) @@ ("R" :> 82) @@ ("S" :> 83) @@
    ("T" :> 84) @@ ("U" :> 85) @@ ("V" :> 86) @@ ("W" :> 87) @@
    ("X" :> 88) @@ ("Y" :> 89) @@ ("Z" :> 90) @@ ("a" :> 97) @@
    ("b" :> 98) @@ ("c" :> 99) @@ ("d" :> 100) @@ ("e" :> 101) @@
    ("f" :> 102) @@ ("g" :> 103) @@ ("h" :> 104) @@ ("i" :> 105) @@
    ("j" :> 106) @@ ("k" :> 107) @@ ("l" :> 108) @@ ("m" :> 109) @@
    ("n" :> 110) @@ ("o" :> 111) @@ ("p" :> 112) @@ ("q" :> 113) @@
    ("r" :> 114) @@ ("s" :> 115) @@ ("t" :> 116) @@ ("u" :> 117) @@
    ("v" :> 118) @@ ("w" :> 119) @@ ("x" :> 120) @@ ("y" :> 121) @@
    ("z" :> 122)

\* a < b for str: the first differing character decides, a prefix is less
RECURSIVE StrLess(_, _)
StrLess(a, b) ==
    IF b = <<>> THEN FALSE
    ELSE IF a = <<>> THEN TRUE
    ELSE IF Head(a) = Head(b) THEN StrLess(Tail(a), Tail(b))
    ELSE CodePoint[Head(a)] < CodePoint[Head(b)]

\* name.startswith(prefix)
StartsWith(name, prefix) ==
    Len(prefix) <= Len(name) /\ SubSeq(name, 1, Len(prefix)) = prefix

\* part in name
Contains(name, part) ==
    \E i \in 0..(Len(name) - Len(part)) : SubSeq(name, i + 1, i + Len(part)) = part

----------------------------------------------------------------------------
(* search_artist (fetch_setlists.py 53-138) *)

\* candidates = artists_sorted[:10]
TopN == 10

\* (a.get("name") or "")
NameOrEmpty(a) == IF Truthy(Get(a.name)) THEN a.name.s ELSE <<>>

\* sort_key(a): (0, name) for an exact match of the lower-cased query,
\* (1, name) for startswith, (2, name) for contains, (3, name) otherwise
KeyOf(name, query_lower) ==
    IF name = query_lower THEN <<0, name>>
    ELSE IF StartsWith(name, query_lower) THEN <<1, name>>
    ELSE IF Contains(name, query_lower) THEN <<2, name>>
    ELSE <<3, name>>

sort_key_case_sensitive(a, query_lower) == KeyOf(NameOrEmpty(a), query_lower)
sort_key(a, query_lower) == KeyOf(Lower(NameOrEmpty(a)), query_lower)

\* The order of the key tuples
KeyLess(k1, k2) == k1[1] < k2[1] \/ (k1[1] = k2[1] /\ StrLess(k1[2], k2[2]))

\* The items with their keys, each key computed once
RECURSIVE Keyed(_, _)
Keyed(list, q) ==
    IF list = <<>> THEN <<>>
    ELSE <<[a |-> Head(list), key |-> sort_key(Head(list), q)]>> \o Keyed(Tail(list), q)

\* Insert x into the sorted list after every item whose key is not greater:
\* sorted() is stable.
RECURSIVE InsertSorted(_, _)
InsertSorted(list, x) ==
    IF list = <<>> THEN <<x>>
    ELSE IF KeyLess(x.key, Head(list).key)
         THEN <<x>> \o list
         ELSE <<Head(list)>> \o InsertSorted(Tail(list), x)

RECURSIVE SortKeyed(_, _)
SortKeyed(done, todo) ==
    IF todo = <<>> THEN done
    ELSE SortKeyed(InsertSorted(done, Head(todo)), Tail(todo))

RECURSIVE Unkeyed(_)
Unkeyed(list) == IF list = <<>> THEN <<>> ELSE <<Head(list).a>> \o Unkeyed(Tail(list))

\* sorted(artists, key=sort_key)
Sorted(list, q) == Unkeyed(SortKeyed(<<>>, Keyed(list, q)))

\* list[:n]
KeepAll(list, n) == list
Take(list, n) == SubSeq(list, 1, IF Len(list) < n THEN Len(list) ELSE n)

Artist(id, name) == [mbid |-> id, name |-> name]

\* The artists a page may hold: for the query "Ab", an exact match, the same
\* in capitals, a longer name, a name holding it, another name, no name.
ArtistPool ==
    {Artist("m1", JStr(<<"a", "b">>)), Artist("m2", JStr(<<"A", "B">>)),
     Artist("m3", JStr(<<"A", "b", "c">>)), Artist("m4", JStr(<<"c", "a", "b">>)),
     Artist("m5", JStr(<<"b">>)), Artist("m6", JNull)}

\* TopN - 1 further artists
MoreIds == <<"f1", "f2", "f3", "f4", "f5", "f6", "f7", "f8", "f9">>

MoreArtists ==
    [i \in 1..(TopN - 1) |->
        Artist(MoreIds[i], JStr(CASE i % 3 = 0 -> <<"A", "b", "a">>
                           [] i % 3 = 1 -> <<"b", " ", "a", "b">>
                           [] OTHER -> <<"Z">>))]

BeatlesPage ==
    <<Artist("b1", JStr(<<"B", "e", "a", "t", "l", "e", "s">>)), Artist("b2", JStr(<<"T", "h", "e", " ", "B", "e", "a", "t", "l", "e", "s">>)),
      Artist("b3", JStr(<<"B", "e", "a", "t", "l", "e", "s", " ", "T", "r", "i", "b", "u", "t", "e", " ", "B", "a", "n", "d">>))>>

ArtistPages ==
    LET short == SeqsUpTo(ArtistPool, MaxArtists)
    IN  short \cup {p \o MoreArtists : p \in short} \cup {BeatlesPage}

Queries == {<<"A", "b">>, <<"B", "e", "a", "t", "l", "e", "s">>}

\* The text of the number n >= 0
RECURSIVE Decimal(_)
Decimal(n) ==
    IF n < 10 THEN <<CHOOSE c \in Digits : DigitValue(c) = n>>
    ELSE Decimal(n \div 10) \o Decimal(n % 10)

\* int(choice) does not raise: decimal digits, with a sign or without
ChoiceIsInt(text) ==
    \/ IsIntLiteral(text)
    \/ /\ text /= <<>>
       /\ Head(text) \in {"-", "+"}
       /\ IsIntLiteral(Tail(text))

\* int(choice)
ChoiceInt(text) ==
    IF Head(text) = "-" THEN 0 - ParseInt(Tail(text))
    ELSE IF Head(text) = "+" THEN ParseInt(Tail(text))
    ELSE ParseInt(text)

\* The answers typed that are neither "" nor "0": the numbers 1 .. TopN + 1,
\* a zero that is not the text "0", a negative number
NumberChoices ==
    {Decimal(n) : n \in 1..(TopN + 1)} \cup {<<"0", "0">>, <<"-", "1">>}

\* Answers that int() rejects
OtherChoices == {<<"x">>, <<"1", ".", "5">>}

\* chosen = candidates[idx - 1]: the lists of the model start at 1
ChosenAtIdx(list, idx) == list[IF idx < Len(list) THEN idx + 1 ELSE 1]
ChosenAt(list, idx) == list[idx]

SearchInit ==
    /\ artist_name \in Queries
    /\ spage = 1
    /\ artists = <<>>
    /\ candidates = <<>>
    /\ rpc = "fetch"
    /\ searchlog = <<>>
    /\ chosen = <<>>
    /\ choice = <<>>
    /\ presented = 0

\* One page is requested and answered: no artists ends the search with None,
\* otherwise the candidates are ranked, cut and shown.
SearchPage ==
    /\ rpc = "fetch"
    /\ spage <= MaxPages
    /\ searchlog' = Append(searchlog, spage)
    /\ \E page \in ArtistPages :
        /\ artists' = page
        /\ IF page = <<>>
           THEN /\ rpc' = "notfound"
                /\ UNCHANGED <<candidates, presented>>
           ELSE /\ candidates' = Take(Sorted(page, Lower(artist_name)), TopN)
                /\ presented' = presented + 1
                /\ rpc' = "prompt"
    /\ UNCHANGED <<artist_name, spage, chosen, choice>>
    /\ UNCHANGED exceptSearch

\* get_with_backoff raises: the exception leaves search_artist
SearchRaises ==
    /\ rpc = "fetch"
    /\ spage <= MaxPages
    /\ searchlog' = Append(searchlog, spage)
    /\ rpc' = "raised"
    /\ UNCHANGED <<artist_name, spage, artists, candidates, chosen, choice, presented>>
    /\ UNCHANGED exceptSearch

\* choice == "": return None
Cancel ==
    /\ rpc = "prompt"
    /\ choice' = <<>>
    /\ rpc' = "cancelled"
    /\ UNCHANGED <<artist_name, spage, artists, candidates, searchlog, chosen,
                   presented>>
    /\ UNCHANGED exceptSearch

\* choice == "0": page += 1; break. The lists of the page left behind are
\* not read again: the next pass assigns both before any use.
NextPage ==
    /\ rpc = "prompt"
    /\ choice' = <<"0">>
    /\ spage' = spage + 1
    /\ rpc' = "fetch"
    /\ artists' = <<>>
    /\ candidates' = <<>>
    /\ UNCHANGED <<artist_name, searchlog, chosen, presented>>
    /\ UNCHANGED exceptSearch

\* choice is a number: the candidate of that number is returned, a number
\* out of range asks again
Select ==
    /\ rpc = "prompt"
    /\ \E text \in NumberChoices :
        LET idx == ChoiceInt(text)
        IN  /\ choice' = text
            /\ IF 1 <= idx /\ idx <= Len(candidates)
               THEN /\ chosen' = <<ChosenAt(candidates, idx)>>
                    /\ rpc' = "selected"
               ELSE UNCHANGED <<chosen, rpc>>
    /\ UNCHANGED <<artist_name, spage, artists, candidates, searchlog, presented>>
    /\ UNCHANGED exceptSearch

\* int(choice) raises ValueError: "Please enter a valid number.", ask again
InvalidChoice ==
    /\ rpc = "prompt"
    /\ \E text \in OtherChoices : choice' = text
    /\ UNCHANGED <<artist_name, spage, artists, candidates, rpc, searchlog, chosen,
                   presented>>
    /\ UNCHANGED exceptSearch

SearchNext ==
    SearchPage \/ SearchRaises \/ Cancel \/ NextPage \/ Select \/ InvalidChoice

----------------------------------------------------------------------------
(* build_markov_chain (markov_model.py 23-47) *)

Songs == {"A", "B"}

\* df[df.show_id == id], in the order of the rows
GroupOfAnyShow(frame, id) == frame
GroupOf(frame, id) ==
    LET InShow(r) == r.show_id = id
    IN  SelectSeq(frame, InShow)

\* group.sort_values("position"): the positions of a show are distinct in
\* the frames tried
RECURSIVE InsertByPosition(_, _)
InsertByPosition(list, r) ==
    IF list = <<>> THEN <<r>>
    ELSE IF r.position < Head(list).position
         THEN <<r>> \o list
         ELSE <<Head(list)>> \o InsertByPosition(Tail(list), r)

RECURSIVE SortByPosition(_)
SortByPosition(group) ==
    IF group = <<>> THEN <<>>
    ELSE InsertByPosition(SortByPosition(SubSeq(group, 1, Len(group) - 1)),
                          group[Len(group)])

\* counts[curr_song][next_song] += 1, on a defaultdict of defaultdict(int)
Increment(counts, curr_song, next_song) ==
    IF curr_song \notin DOMAIN counts
    THEN counts @@ (curr_song :> (next_song :> 1))
    ELSE IF next_song \notin DOMAIN counts[curr_song]
         THEN [counts EXCEPT ![curr_song] = @ @@ (next_song :> 1)]
         ELSE [counts EXCEPT ![curr_song][next_song] = @ + 1]

\* for i in range(len(songs) - 1): count songs[i] -> songs[i + 1]
RECURSIVE CountShow(_, _, _)
CountShow(counts, songs, i) ==
    IF i > Len(songs) - 1 THEN counts
    ELSE CountShow(Increment(counts, songs[i].song, songs[i + 1].song), songs, i + 1)

\* for show_id, group in df.groupby("show_id"): in ascending show_id
RECURSIVE CountShows(_, _, _)
CountShows(counts, frame, ids) ==
    IF ids = {} THEN counts
    ELSE LET id == CHOOSE x \in ids : \A y \in ids : x <= y
         IN  CountShows(CountShow(counts, SortByPosition(GroupOf(frame, id)), 1),
                        frame, ids \ {id})

\* sum(next_dict.values())
RECURSIVE SumValues(_, _)
SumValues(next_dict, keys) ==
    IF keys = {} THEN 0
    ELSE LET k == CHOOSE x \in keys : TRUE
         IN  next_dict[k] + SumValues(next_dict, keys \ {k})

TotalIsLen(next_dict) == Cardinality(DOMAIN next_dict)
Total(next_dict) == SumValues(next_dict, DOMAIN next_dict)

\* {next_song: count / total for next_song, count in next_dict.items()}
Probabilities(next_dict) ==
    [next_song \in DOMAIN next_dict |-> <<next_dict[next_song], Total(next_dict)>>]

build_markov_chain(frame) ==
    LET counts == CountShows(<<>>, frame, {frame[i].show_id : i \in 1..Len(frame)})
    IN  [curr_song \in DOMAIN counts |-> Probabilities(counts[curr_song])]

\* The rows of one show: its songs at the positions 1, 2, ...
ShowRows(id, songs) ==
    [i \in 1..Len(songs) |-> [show_id |-> id, position |-> i, song |-> songs[i]]]

RECURSIVE FrameOf(_, _)
FrameOf(shows, id) ==
    IF id > Len(shows) THEN <<>>
    ELSE ShowRows(id, shows[id]) \o FrameOf(shows, id + 1)

Reversed(list) == [i \in 1..Len(list) |-> list[Len(list) + 1 - i]]

\* The frames tried: every choice of the songs of the shows 1..MaxShows, and
\* every choice of MaxOpeners shows of at most one song, the rows in the order
\* of the shows and positions or in the reverse order.
ShowLists ==
    [1..MaxShows -> SeqsUpTo(Songs, MaxShowLen)]
        \cup [1..MaxOpeners -> SeqsUpTo(Songs, 1)]

Frames ==
    LET ordered == {FrameOf(shows, 1) : shows \in ShowLists}
    IN  ordered \cup {Reversed(f) : f \in ordered}

BuildInit ==
    /\ df \in Frames
    /\ transitions = <<>>
    /\ bpc = "call"
    /\ opener = ""

\* transitions = build_markov_chain(df)
Build ==
    /\ bpc = "call"
    /\ transitions' = build_markov_chain(df)
    /\ bpc' = "done"
    /\ UNCHANGED <<df, opener>>
    /\ UNCHANGED exceptBuild

\* df[df["position"] == 1]["song"]
Openers(frame) ==
    LET IsFirst(r) == r.position = 1
        firsts == SelectSeq(frame, IsFirst)
    IN  [i \in 1..Len(firsts) |-> firsts[i].song]

\* openers.value_counts(): how often each song occurs
ValueCounts(list) ==
    [song \in {list[i] : i \in 1..Len(list)} |->
        Cardinality({i \in 1..Len(list) : list[i] = song})]

\* value_counts().idxmax(): the first label of the greatest count, in the
\* order value_counts gives. It sorts the counts in descending order with
\* sort_values' default kind "quicksort", which is not stable: which of the
\* labels of equal count comes first is left open.
IdxAny(counts) == DOMAIN counts
IdxMax(counts) ==
    {song \in DOMAIN counts : \A other \in DOMAIN counts : counts[other] <= counts[song]}

\* opener = most_common_opener(df), after the table was built
MostCommonOpener ==
    /\ bpc = "done"
    /\ Openers(df) /= <<>>
    /\ opener' \in IdxMax(ValueCounts(Openers(df)))
    /\ bpc' = "opened"
    /\ UNCHANGED <<df, transitions>>
    /\ UNCHANGED exceptBuild

\* idxmax of an empty Series raises ValueError
OpenerRaises ==
    /\ bpc = "done"
    /\ Openers(df) = <<>>
    /\ bpc' = "raised"
    /\ UNCHANGED <<df, transitions, opener>>
    /\ UNCHANGED exceptBuild

BuildNext == Build \/ MostCommonOpener \/ OpenerRaises

----------------------------------------------------------------------------
(* generate_setlist (markov_model.py 57-75) *)

\* The tables walked: for every set of current songs, every choice of
\* counts of next songs, as probabilities; the empty table is among them.
NextDicts == UNION {[nexts -> 1..MaxCount] : nexts \in SUBSET Songs \ {{}}}

Tables ==
    UNION {{[c \in keys |-> Probabilities(counts[c])] : counts \in [keys -> NextDicts]} :
              keys \in SUBSET Songs}

\* The start song may be a song that is in no table.
StartSongs == Songs \cup {"Z"}

\* for _ in range(length - 1)
GenLoopOneMore(i, n) == i < n
GenLoopContinues(i, n) == i < n - 1

\* next_probs = transitions.get(current); if not next_probs
DeadEnd(table, song) ==
    IF song \in DOMAIN table THEN DOMAIN table[song] = {} ELSE TRUE

\* list(transitions.keys()): the songs a restart may draw
RestartAnySong(table) == Songs
RestartSongs(table) == DOMAIN table

GenerateInit ==
    /\ gtransitions \in Tables
    /\ start_song \in StartSongs
    /\ length \in 1..MaxLength
    /\ gsetlist = <<>>
    /\ current = ""
    /\ gpc = "call"

\* setlist = [start_song]; current = start_song
GenStart ==
    /\ gpc = "call"
    /\ gsetlist' = <<start_song>>
    /\ current' = start_song
    /\ gpc' = "loop"
    /\ UNCHANGED <<gtransitions, start_song, length>>
    /\ UNCHANGED exceptGenerate

\* One pass of the loop at a dead end: np.random.choice(list(keys)), which
\* raises ValueError on an empty list
GenRestart ==
    /\ gpc = "loop"
    /\ GenLoopContinues(Len(gsetlist) - 1, length)
    /\ DeadEnd(gtransitions, current)
    /\ IF RestartSongs(gtransitions) = {}
       THEN /\ gpc' = "raised"
            /\ UNCHANGED <<gsetlist, current>>
       ELSE /\ \E song \in RestartSongs(gtransitions) :
                /\ current' = song
                /\ gsetlist' = Append(gsetlist, song)
            /\ gpc' = gpc
    /\ UNCHANGED <<gtransitions, start_song, length>>
    /\ UNCHANGED exceptGenerate

\* One pass of the loop otherwise: np.random.choice(songs, p=probs) draws a
\* next song of positive probability (the probabilities of the tables sum to
\* 1, as np.random.choice demands)
GenStep ==
    /\ gpc = "loop"
    /\ GenLoopContinues(Len(gsetlist) - 1, length)
    /\ ~DeadEnd(gtransitions, current)
    /\ \E song \in DOMAIN gtransitions[current] :
        /\ gtransitions[current][song][1] > 0
        /\ current' = song
        /\ gsetlist' = Append(gsetlist, song)
    /\ UNCHANGED <<gtransitions, start_song, length, gpc>>
    /\ UNCHANGED exceptGenerate

\* return setlist
GenReturn ==
    /\ gpc = "loop"
    /\ ~GenLoopContinues(Len(gsetlist) - 1, length)
    /\ gpc' = "returned"
    /\ UNCHANGED <<gtransitions, start_song, length, gsetlist, current>>
    /\ UNCHANGED exceptGenerate

GenerateNext == GenStart \/ GenRestart \/ GenStep \/ GenReturn

----------------------------------------------------------------------------
(* main (fetch_setlists.py 324-347), from the call of search_artist on *)

\* search_artist has returned: an artist, or None
SearchReturns == rpc \in {"selected", "cancelled", "notfound"}

\* if not artist: return
MainGoesOn(result) == TRUE
MainHasArtist(result) == result /= <<>>

\* artist = search_artist(artist_name); if not artist: return
MainReturn ==
    /\ mpc = "search"
    /\ SearchReturns
    /\ ~MainHasArtist(chosen)
    /\ mpc' = "exit"
    /\ UNCHANGED <<clientVars, historyVars, searchVars, flattenVars, buildVars,
                   generateVars, loadVars>>

\* mbid = artist.get("mbid"); fetch_all_setlists_for_artist(mbid) is entered
\* (its steps are those of SpecPaginator). None has no get.
MainFetchAll ==
    /\ mpc = "search"
    /\ SearchReturns
    /\ MainHasArtist(chosen)
    /\ IF chosen = <<>>
       THEN /\ mpc' = "raised"
            /\ UNCHANGED historyVars
       ELSE /\ mbid' = chosen[1].mbid
            /\ hpc' = "fetch"
            /\ mpc' = "history"
            /\ UNCHANGED <<hpage, all_setlists, pagelog, lastdata, pauses>>
    /\ UNCHANGED <<clientVars, searchVars, flattenVars, buildVars, generateVars,
                   loadVars>>

\* The exception of get_with_backoff leaves main as well.
MainRaises ==
    /\ mpc = "search"
    /\ rpc = "raised"
    /\ mpc' = "raised"
    /\ UNCHANGED <<clientVars, historyVars, searchVars, flattenVars, buildVars,
                   generateVars, loadVars>>

MainNext == MainReturn \/ MainFetchAll \/ MainRaises

----------------------------------------------------------------------------
(* write_setlists_to_csv (fetch_setlists.py 280-320) and load_setlists       *)
(* (markov_model.py 7-19). A CSV file is its header and its rows, a row a    *)
(* function from the columns to the cells.                                   *)

exceptLoad ==
    <<clientVars, historyVars, searchVars, flattenVars, buildVars, generateVars,
      mainVars>>

fieldnames ==
    <<"show_id", "show_date", "city", "state", "country", "venue", "artist_name",
      "tour_name", "festival_flag", "set_index", "song_index", "song_name",
      "is_cover", "cover_artist", "encore_index">>

\* for sl in setlists: rows = normalize_setlist_to_rows(sl); writerow each
RECURSIVE WriteRows(_, _)
WriteRows(setlists, acc) ==
    IF setlists = <<>> THEN Returned(acc)
    ELSE LET r == normalize_setlist_to_rows(Head(setlists))
         IN  IF r.raised /= "none" THEN r
             ELSE WriteRows(Tail(setlists), acc \o r.rows)

\* The file written for setlists on which the normaliser does not raise:
\* the header is fieldnames, and DictWriter writes of each row the cells of
\* these columns (the keys of a row are exactly fieldnames).
write_setlists_to_csv(setlists) ==
    [columns |-> fieldnames, rows |-> WriteRows(setlists, <<>>).rows]

required_cols == {"show_id", "date", "venue", "position", "song"}

\* set(df.columns)
ColumnsOf(file) == {file.columns[i] : i \in 1..Len(file.columns)}

\* The order of sort_values(["show_id", "position"])
LoadKeyLess(r1, r2) ==
    \/ r1["show_id"] < r2["show_id"]
    \/ r1["show_id"] = r2["show_id"] /\ r1["position"] < r2["position"]

RECURSIVE InsertByKey(_, _)
InsertByKey(list, r) ==
    IF list = <<>> THEN <<r>>
    ELSE IF LoadKeyLess(r, Head(list))
         THEN <<r>> \o list
         ELSE <<Head(list)>> \o InsertByKey(Tail(list), r)

\* df.sort_values(["show_id", "position"]).reset_index(drop=True)
RECURSIVE SortValues(_)
SortValues(list) ==
    IF list = <<>> THEN <<>>
    ELSE InsertByKey(SortValues(SubSeq(list, 1, Len(list) - 1)), list[Len(list)])

\* if not required_cols.issubset(df.columns): raise ValueError
HasRequiredCols(file) == required_cols \subseteq ColumnsOf(file)

\* The files read: files of the columns show_id, date, venue, position, song
\* and tour or of some of them, with up to MaxCsvRows of three rows in any
\* order, and the files write_setlists_to_csv writes.
BaseHeader == <<"show_id", "date", "venue", "position", "song", "tour">>

Headers ==
    {LET Keep(c) == c \in cols IN SelectSeq(BaseHeader, Keep) :
        cols \in SUBSET {BaseHeader[i] : i \in 1..Len(BaseHeader)}}

Templates ==
    {[show_id |-> 2, position |-> 1, song |-> "A"],
     [show_id |-> 1, position |-> 2, song |-> "A"],
     [show_id |-> 1, position |-> 1, song |-> "B"]}

Cell(c, t) == IF c \in {"show_id", "position", "song"} THEN t[c] ELSE c

TwoSets ==
    [BaseSetlist EXCEPT !.sets = Sets("dict", Many("list",
        <<Block(JAbsent, Many("list", <<Song(JStr(<<"A">>), NoCover)>>)),
          Block(JInt(1), Many("list", <<Song(JStr(<<"B">>), NoCover)>>))>>))]

CsvFiles ==
    {[columns |-> h,
      rows |-> [i \in 1..Len(ts) |-> [c \in {h[j] : j \in 1..Len(h)} |-> Cell(c, ts[i])]]] :
        h \in Headers, ts \in SeqsUpTo(Templates, MaxCsvRows)}
        \cup {write_setlists_to_csv(sls) : sls \in SeqsUpTo({BaseSetlist, TwoSets}, MaxCsvRows)}

NoFile == [columns |-> <<>>, rows |-> <<>>]

LoadInit ==
    /\ csv \in CsvFiles
    /\ ldf = NoFile
    /\ lpc = "call"

LoadIdle ==
    /\ csv = NoFile
    /\ ldf = NoFile
    /\ lpc = "idle"

\* df = load_setlists(csv_path): ValueError for missing columns, otherwise
\* the rows sorted by show_id and position (the cells of position are
\* integers in the files read, so astype(int) leaves them as they are)
LoadSetlists ==
    /\ lpc = "call"
    /\ IF ~HasRequiredCols(csv)
       THEN /\ lpc' = "ValueError"
            /\ UNCHANGED ldf
       ELSE /\ ldf' = [columns |-> csv.columns, rows |-> SortValues(csv.rows)]
            /\ lpc' = "returned"
    /\ UNCHANGED csv
    /\ UNCHANGED exceptLoad

LoadNext == LoadSetlists

----------------------------------------------------------------------------
(* Specifications *)

SearchIdle ==
    /\ artist_name = <<>>
    /\ spage = 1
    /\ artists = <<>>
    /\ candidates = <<>>
    /\ rpc = "idle"
    /\ searchlog = <<>>
    /\ chosen = <<>>
    /\ choice = <<>>
    /\ presented = 0

FlattenIdle ==
    /\ setlist = <<>>
    /\ rows = Returned(<<>>)
    /\ npc = "idle"

BuildIdle ==
    /\ df = <<>>
    /\ transitions = <<>>
    /\ bpc = "idle"
    /\ opener = ""

GenerateIdle ==
    /\ gtransitions = <<>>
    /\ start_song = ""
    /\ length = 0
    /\ gsetlist = <<>>
    /\ current = ""
    /\ gpc = "idle"

MainIdle == mpc = "idle"

InitClient ==
    /\ ClientInit /\ HistoryIdle /\ SearchIdle /\ FlattenIdle /\ BuildIdle /\ GenerateIdle
    /\ MainIdle /\ LoadIdle

SpecClient == InitClient /\ [][ClientNext]_vars

InitPaginator ==
    /\ HistoryInit /\ ClientIdle /\ SearchIdle /\ FlattenIdle /\ BuildIdle /\ GenerateIdle
    /\ MainIdle /\ LoadIdle

SpecPaginator == InitPaginator /\ [][HistoryNext]_vars

InitSearch ==
    /\ SearchInit /\ ClientIdle /\ HistoryIdle /\ FlattenIdle /\ BuildIdle /\ GenerateIdle
    /\ MainIdle /\ LoadIdle

SpecResolver == InitSearch /\ [][SearchNext]_vars

InitBuild ==
    /\ BuildInit /\ ClientIdle /\ HistoryIdle /\ SearchIdle /\ FlattenIdle /\ GenerateIdle
    /\ MainIdle /\ LoadIdle

SpecBuild == InitBuild /\ [][BuildNext]_vars

InitGenerate ==
    /\ GenerateInit /\ ClientIdle /\ HistoryIdle /\ SearchIdle /\ FlattenIdle /\ BuildIdle
    /\ MainIdle /\ LoadIdle

SpecGenerate == InitGenerate /\ [][GenerateNext]_vars

InitFlatten ==
    /\ FlattenInit /\ ClientIdle /\ HistoryIdle /\ SearchIdle /\ BuildIdle /\ GenerateIdle
    /\ MainIdle /\ LoadIdle

SpecFlatten == InitFlatten /\ [][FlattenNext]_vars

InitLoad ==
    /\ LoadInit /\ ClientIdle /\ HistoryIdle /\ SearchIdle /\ FlattenIdle /\ BuildIdle
    /\ GenerateIdle /\ MainIdle

SpecLoad == InitLoad /\ [][LoadNext]_vars

\* main has called search_artist
InitPipeline ==
    /\ SearchInit /\ ClientIdle /\ HistoryIdle /\ FlattenIdle /\ BuildIdle /\ GenerateIdle
    /\ mpc = "search"
    /\ LoadIdle

PipelineNext == SearchNext \/ MainNext

SpecPipeline == InitPipeline /\ [][PipelineNext]_vars

----------------------------------------------------------------------------
(* Claims about get_with_backoff *)

All429(log) == \A i \in 1..Len(log) : log[i] = 429

SuccessStatus(status) == status \in 200..299

HttpErrorStatus(status) == status \in 400..599 /\ status /= 429

\* k rate-limit responses followed by a success
RateLimitedThenSuccess(k) ==
    /\ Len(resplog) = k + 1
    /\ All429(SubSeq(resplog, 1, k))
    /\ SuccessStatus(resplog[k + 1])

\* C3: k consecutive 429 responses followed by a success, k below the retry
\* budget, give exactly k sleeps of 0.5, 1.0, 2.0, ... seconds (doubling),
\* exactly k+1 requests, and the successful response is returned; 3 of them
\* give the sleeps 0.5, 1.0, 2.0.
C3_BackoffDelays ==
    /\ \A k \in 0..(max_retries - 1) :
          RateLimitedThenSuccess(k) =>
              /\ cpc = "returned"
              /\ outcome = [kind |-> "response", status |-> resplog[k + 1]]
              /\ Len(sleeps) = k
              /\ \A i \in 1..k : sleeps[i] = 500 * Pow2(i - 1)
              /\ Len(reqlog) = k + 1
    /\ RateLimitedThenSuccess(3) => sleeps = <<500, 1000, 2000>>

C3_Witness ==
    /\ resplog = <<429, 429, 429, 200>>
    /\ cpc = "returned"
    /\ Len(sleeps) = 3

\* C8: when every response is a 429, the call fails with the RuntimeError
\* after exactly 5 requests: never a 6th request, and no response returned.
C8_RateLimitExceeded ==
    /\ Len(reqlog) <= 5
    /\ (All429(resplog) /\ Len(resplog) = 5) =>
          /\ cpc \in {"sleep", "for", "raised"}
          /\ outcome.kind \in {"none", "RuntimeError"}
          /\ ~ENABLED SessionGet
          /\ cpc = "for" => ENABLED GiveUp
          /\ cpc = "raised" => outcome.kind = "RuntimeError"
    /\ outcome.kind = "RuntimeError" =>
          All429(resplog) /\ Len(resplog) = 5 /\ Len(reqlog) = 5

C8_Witness ==
    /\ outcome.kind = "RuntimeError"
    /\ cpc = "raised"
    /\ Len(reqlog) = 5
    /\ All429(resplog)

\* C9: a 4xx/5xx status other than 429, on the first attempt or after any
\* number of 429 retries, makes the call fail at once with the HTTP error:
\* no sleep and no request follows that response.
C9_HttpErrorFailsImmediately ==
    (resplog /= <<>> /\ HttpErrorStatus(Last(resplog))) =>
        /\ cpc = "raised"
        /\ outcome = [kind |-> "HTTPError", status |-> Last(resplog)]
        /\ Len(reqlog) = Len(resplog)
        /\ Len(sleeps) = Len(resplog) - 1
        /\ ~ENABLED ClientNext

C9_Witness ==
    /\ Len(resplog) = 3
    /\ All429(SubSeq(resplog, 1, 2))
    /\ resplog[3] = 404
    /\ outcome = [kind |-> "HTTPError", status |-> 404]
    /\ Len(sleeps) = 2

----------------------------------------------------------------------------
(* Claims about fetch_all_setlists_for_artist *)

\* The last page received is non-empty and shorter than its declared
\* itemsPerPage.
ShortPageReceived ==
    /\ pagelog /= <<>>
    /\ hpc /= "raised"
    /\ lastdata.setlist /= <<>>
    /\ lastdata.hasItemsPerPage
    /\ Len(lastdata.setlist) < lastdata.itemsPerPage

\* C4: after a non-empty page with fewer records than its declared
\* itemsPerPage no further page is requested, even when the advisory total
\* says that more records remain than have been accumulated.
C4_StopsAfterShortPage ==
    ShortPageReceived =>
        /\ hpc = "done"
        /\ ~ENABLED HistoryNext
        /\ Last(pagelog).p = hpage
        /\ Len(pagelog) = hpage

C4_Witness ==
    /\ ShortPageReceived
    /\ lastdata.hasTotal
    /\ lastdata.total > Len(all_setlists)
    /\ hpage = 2
    /\ hpc = "done"

----------------------------------------------------------------------------
(* Claims about normalize_setlist_to_rows *)

\* A repeated field in its other encoding: a single object as a list of
\* one, or a list of one object as the object; `as` is "list", "dict" or
\* "same".
Encoded(field, as) ==
    CASE as = "list" /\ field.k = "dict" -> Many("list", field.items)
      [] as = "dict" /\ field.k = "list" /\ Len(field.items) = 1
            /\ field.items[1].k = "dict" -> Many("dict", field.items)
      [] OTHER -> field

\* The setlist with its sets encoded as setsAs and the songs of every set as
\* songsAs.
Reencoded(sl, setsAs, songsAs) ==
    LET field == sl.sets.set
        blocks == [j \in 1..Len(field.items) |->
                     [field.items[j] EXCEPT !.song = Encoded(@, songsAs)]]
    IN  [sl EXCEPT !.sets.set = Encoded(Many(field.k, blocks), setsAs)]

Encodings == {"same", "list", "dict"}

\* C5: a set block or a song entry given as a single object or as a list of
\* one object yields the same rows (or the same failure).
C5_ShapeInvariant ==
    npc = "done" =>
        \A setsAs \in Encodings, songsAs \in Encodings :
            normalize_setlist_to_rows(Reencoded(setlist, setsAs, songsAs)) = rows

C5_Witness ==
    /\ npc = "done"
    /\ setlist.sets.set.k = "dict"
    /\ setlist.sets.set.items[1].k = "dict"
    /\ setlist.sets.set.items[1].song.k = "dict"
    /\ rows.raised = "none"
    /\ Len(rows.rows) = 1
    /\ Reencoded(setlist, "list", "list") /= setlist
    /\ Reencoded(setlist, "list", "list").sets.set.items[1].song.k = "list"

\* A day-month-year date: dd-MM-yyyy
WellFormedDate(d) ==
    /\ Len(d) = 10
    /\ d[3] = "-" /\ d[6] = "-"
    /\ \A i \in {1, 2, 4, 5, 7, 8, 9, 10} : d[i] \in Digits

YearMonthDay(d) == SubSeq(d, 7, 10) \o <<"-">> \o SubSeq(d, 4, 5) \o <<"-">> \o SubSeq(d, 1, 2)

\* C6: a well-formed day-month-year date becomes year-month-day
\* ("21-05-2023" becomes "2023-05-21") and every malformed date text, such
\* as "not-a-date", is the show date unchanged (stated for the non-empty
\* texts).
C6_DateConversion ==
    (npc = "done" /\ setlist.eventDate.k = "str" /\ setlist.eventDate.s /= <<>>
        /\ rows.raised = "none" /\ rows.rows /= <<>>) =>
        LET d == setlist.eventDate.s
            show_date == rows.rows[1].show_date
        IN  /\ d = GoodDate =>
                show_date = JStr(<<"2", "0", "2", "3", "-", "0", "5", "-", "2", "1">>)
            /\ WellFormedDate(d) => show_date = JStr(YearMonthDay(d))
            /\ d = NotADate => show_date = JStr(NotADate)
            /\ ~WellFormedDate(d) => show_date = JStr(d)

\* C10: normalize_setlist_to_rows never raises: for every setlist, whatever
\* is absent, null or of an unexpected shape, it returns rows.
C10_NeverFails == npc = "done" => rows.raised = "none"

----------------------------------------------------------------------------
(* Claims about search_artist *)

Range(list) == {list[i] : i \in 1..Len(list)}

Count(list, x) == Cardinality({i \in 1..Len(list) : list[i] = x})

IsPrefix(part, name) ==
    Len(part) <= Len(name) /\ \A i \in 1..Len(part) : name[i] = part[i]

IsInfix(part, name) ==
    \E k \in 0..(Len(name) - Len(part)) : \A i \in 1..Len(part) : name[k + i] = part[i]

\* The match tier of a lower-cased name against the lower-cased query
MatchTier(name, query) ==
    CASE name = query -> 0
      [] name /= query /\ IsPrefix(query, name) -> 1
      [] ~IsPrefix(query, name) /\ IsInfix(query, name) -> 2
      [] OTHER -> 3

\* (tier, lower-cased name) of a candidate
RankOf(a) ==
    LET name == Lower(NameOrEmpty(a))
    IN  <<MatchTier(name, Lower(artist_name)), name>>

NamesOf(list) == [i \in 1..Len(list) |-> list[i].name.s]

\* C7: the list presented for a page is the page's candidates in ascending
\* order of (match tier, lower-cased name), cut to the first 10; for
\* "Beatles", "The Beatles", "Beatles Tribute Band" and the query "Beatles"
\* it is "Beatles", "Beatles Tribute Band", "The Beatles".
C7_Ranking ==
    rpc = "prompt" =>
        LET n == Len(candidates)
            rank == [i \in 1..n |-> RankOf(candidates[i])]
        IN  /\ n = IF Len(artists) < 10 THEN Len(artists) ELSE 10
            /\ \A i \in 1..n : \A j \in (i + 1)..n : ~KeyLess(rank[j], rank[i])
            /\ \A a \in Range(artists) :
                  /\ Count(candidates, a) <= Count(artists, a)
                  /\ Count(candidates, a) < Count(artists, a) =>
                        n = 10 /\ ~KeyLess(RankOf(a), rank[n])
            /\ Range(candidates) \subseteq Range(artists)
            /\ (artists = BeatlesPage /\ artist_name = <<"B", "e", "a", "t", "l", "e", "s">>) =>
                  NamesOf(candidates) = <<<<"B", "e", "a", "t", "l", "e", "s">>, <<"B", "e", "a", "t", "l", "e", "s", " ", "T", "r", "i", "b", "u", "t", "e", " ", "B", "a", "n", "d">>, <<"T", "h", "e", " ", "B", "e", "a", "t", "l", "e", "s">>>>

\* A page of more than 10 candidates of all four tiers is presented.
C7_Witness ==
    /\ rpc = "prompt"
    /\ Len(artists) > 10
    /\ Len(candidates) = 10
    /\ {RankOf(candidates[i])[1] : i \in 1..10} = {0, 1, 2, 3}
    /\ \E a \in Range(artists) : a \notin Range(candidates)

C7_BeatlesPresented ==
    /\ rpc = "prompt"
    /\ artists = BeatlesPage
    /\ artist_name = <<"B", "e", "a", "t", "l", "e", "s">>

----------------------------------------------------------------------------
(* Claims about build_markov_chain and generate_setlist *)

\* The sum of two fractions <<numerator, denominator>>
FracAdd(f, g) == <<f[1] * g[2] + g[1] * f[2], f[2] * g[2]>>

RECURSIVE SumProbs(_, _)
SumProbs(dist, keys) ==
    IF keys = {} THEN <<0, 1>>
    ELSE LET k == CHOOSE x \in keys : TRUE
         IN  FracAdd(dist[k], SumProbs(dist, keys \ {k}))

\* The pairs of rows of one show with no row of that show at a position
\* between them: the second song comes right after the first.
FollowPairs(frame) ==
    LET rowsOf == 1..Len(frame)
    IN  {p \in rowsOf \X rowsOf :
            /\ frame[p[1]].show_id = frame[p[2]].show_id
            /\ frame[p[1]].position < frame[p[2]].position
            /\ ~\E k \in rowsOf :
                  /\ frame[k].show_id = frame[p[1]].show_id
                  /\ frame[p[1]].position < frame[k].position
                  /\ frame[k].position < frame[p[2]].position}

\* How many times b comes right after a
FollowCount(frame, a, b) ==
    Cardinality({p \in FollowPairs(frame) :
                    frame[p[1]].song = a /\ frame[p[2]].song = b})

\* How many times a is followed by a song
Followed(frame, a) ==
    Cardinality({p \in FollowPairs(frame) : frame[p[1]].song = a})

\* C2: in the table built, the probabilities of every key sum to 1: each is
\* count(current, next) over the sum of the counts of that current song.
C2_ProbabilitiesSumToOne ==
    bpc = "done" =>
        \A c \in DOMAIN transitions :
            LET dist == transitions[c]
                sum == SumProbs(dist, DOMAIN dist)
                followers == Followed(df, c)
            IN  /\ DOMAIN dist /= {}
                /\ sum[2] > 0 /\ sum[1] = sum[2]
                /\ \A n \in DOMAIN dist :
                      /\ dist[n][2] > 0
                      /\ dist[n][1] * followers = FollowCount(df, c, n) * dist[n][2]

C2_Witness ==
    /\ bpc = "done"
    /\ "A" \in DOMAIN transitions
    /\ DOMAIN transitions["A"] = {"A", "B"}
    /\ transitions["A"]["A"] = <<1, 3>>
    /\ transitions["A"]["B"] = <<2, 3>>

\* C1: for a table that is not empty, every start song (in the table or not)
\* and every length >= 1, generate_setlist returns exactly `length` songs,
\* the first of them the start song, whatever is drawn.
C1_GenerateLength ==
    (DOMAIN gtransitions /= {} /\ length >= 1 /\ gpc /= "call") =>
        /\ gpc \in {"loop", "returned"}
        /\ gpc = "loop" => ENABLED GenerateNext
        /\ Len(gsetlist) <= length
        /\ gsetlist[1] = start_song
        /\ gpc = "returned" => Len(gsetlist) = length

C1_Witness ==
    /\ gpc = "returned"
    /\ start_song = "Z"
    /\ DOMAIN gtransitions = {"A"}
    /\ length = 4
    /\ gsetlist = <<"Z", "A", "B", "A">>

\* C11: generate_setlist on a table with no entries fails for every start
\* song and every length >= 1, length 1 included: it never returns a
\* sequence from an empty table.
C11_EmptyTableNeverReturns ==
    (DOMAIN gtransitions = {} /\ length >= 1) => gpc /= "returned"

----------------------------------------------------------------------------
(* More claims about fetch_all_setlists_for_artist *)

\* A page that ends the retrieval: empty, or shorter than the items-per-page
\* value it declares
StoppingPage(data) ==
    \/ data.setlist = <<>>
    \/ data.hasItemsPerPage /\ Len(data.setlist) < data.itemsPerPage

\* C12: the pages requested are 1, 2, ..., k in this order, k being the first
\* page that is empty or shorter than its declared items-per-page, and the
\* list returned is the concatenation of the records of these pages in page
\* order and in within-page order: every answered request appends the whole
\* page to what was accumulated, nothing is dropped, reordered or
\* deduplicated, and the retrieval goes on exactly when the page is not a
\* stopping page.
C12_Concatenation ==
    [][/\ hpc = "fetch"
       /\ pagelog' = Append(pagelog, [mbid |-> mbid, p |-> Len(pagelog) + 1])
       /\ \A i \in 1..Len(pagelog') : pagelog'[i] = [mbid |-> mbid, p |-> i]
       /\ hpc' \in {"fetch", "done", "raised"}
       /\ hpc' = "raised" => all_setlists' = all_setlists
       /\ hpc' /= "raised" =>
            /\ all_setlists' = all_setlists \o lastdata'.setlist
            /\ (hpc' = "done") = StoppingPage(lastdata')]_vars

\* Page 1 is full, page 2 is short and repeats a record of page 1.
C12_Witness ==
    /\ hpc = "done"
    /\ Len(pagelog) = 2
    /\ lastdata.setlist = <<"s1">>
    /\ lastdata.hasItemsPerPage /\ lastdata.itemsPerPage = 2
    /\ all_setlists = <<"s1", "s2", "s1">>

----------------------------------------------------------------------------
(* Claims about search_artist and main *)

\* C13: when the answer at a presented page is the cancellation, search_artist
\* ends at once without a candidate: from the step that cancels on, no search
\* request is issued, nothing is presented, no candidate is returned, main
\* leaves without an error, and neither the retrieval of the setlists nor the
\* output of rows is started.
C13_CancelUnwinds ==
    [][rpc' = "cancelled" =>
          /\ rpc \in {"prompt", "cancelled"}
          /\ searchlog' = searchlog
          /\ presented' = presented
          /\ candidates' = candidates /\ artists' = artists /\ spage' = spage
          /\ chosen' = <<>>
          /\ mpc' \in {"search", "exit"}
          /\ hpc' = "idle" /\ pagelog' = <<>> /\ all_setlists' = <<>>
          /\ npc' = "idle"
          /\ UNCHANGED clientVars]_vars

\* The second page was presented and cancelled, and main has left.
C13_Witness ==
    /\ rpc = "cancelled"
    /\ searchlog = <<1, 2>>
    /\ presented = 2
    /\ Len(candidates) = TopN
    /\ mpc = "exit"

\* C14: whatever is answered, a candidate is returned only for an answer that
\* is an index i with 1 <= i <= the number of candidates presented, and it is
\* the i-th of the list presented for the page last fetched; the next-page
\* answer leads to exactly one request, of the page numbered one higher;
\* every other answer asks again; a page without candidates ends the search
\* without a candidate and without a presentation.
C14_Decisions ==
    [][/\ rpc = "prompt" =>
            LET n == Len(candidates)
                isIndex == ChoiceIsInt(choice') /\ choice' /= <<"0">>
                i == IF isIndex THEN ChoiceInt(choice') ELSE 0
            IN  /\ (rpc' = "selected") <=> (isIndex /\ 1 <= i /\ i <= n)
                /\ rpc' = "selected" =>
                      /\ chosen' = <<candidates[i]>>
                      /\ candidates[i] \in Range(artists)
                      /\ UNCHANGED <<searchlog, presented>>
                /\ rpc' /= "selected" => chosen' = <<>>
                /\ (rpc' = "fetch") <=> (choice' = <<"0">>)
                /\ rpc' = "fetch" =>
                      /\ spage' = spage + 1
                      /\ UNCHANGED <<searchlog, presented>>
                /\ (rpc' = "cancelled") <=> (choice' = <<>>)
                /\ rpc' \in {"selected", "fetch", "cancelled", "prompt"}
                /\ rpc' = "prompt" =>
                      UNCHANGED <<candidates, artists, spage, searchlog, presented>>
       /\ rpc = "fetch" =>
            /\ spage = Len(searchlog) + 1
            /\ searchlog' = Append(searchlog, spage)
            /\ spage' = spage
            /\ chosen' = <<>>
            /\ rpc' \in {"prompt", "notfound", "raised"}
            /\ rpc' = "notfound" => artists' = <<>> /\ presented' = presented
            /\ rpc' = "prompt" =>
                  /\ artists' /= <<>>
                  /\ presented' = presented + 1
                  /\ Range(candidates') \subseteq Range(artists')
       /\ rpc \notin {"prompt", "fetch"} => UNCHANGED searchVars]_vars

\* The tenth candidate of the second page is chosen after an answer that is
\* out of range.
C14_Witness ==
    /\ rpc = "selected"
    /\ searchlog = <<1, 2>>
    /\ presented = 2
    /\ choice = <<"1", "0">>
    /\ Len(candidates) = TopN
    /\ chosen = <<candidates[TopN]>>
    /\ candidates[TopN] /= candidates[1]

----------------------------------------------------------------------------
(* More claims about build_markov_chain and generate_setlist *)

\* C15: a song is a key of the table built exactly when some show has it
\* right before another row of the same show, in the order of the positions;
\* table[a][b] is there and positive exactly when b comes right after a inside
\* at least one show; the last song of a show and the first song of another
\* show make no transition.
C15_KeysAndTransitions ==
    bpc = "done" =>
        /\ DOMAIN transitions \subseteq Songs
        /\ \A a \in Songs :
              /\ a \in DOMAIN transitions <=> Followed(df, a) > 0
              /\ a \in DOMAIN transitions =>
                    /\ DOMAIN transitions[a] \subseteq Songs
                    /\ \A b \in Songs :
                          /\ b \in DOMAIN transitions[a] <=> FollowCount(df, a, b) > 0
                          /\ b \in DOMAIN transitions[a] => transitions[a][b][1] > 0

\* Show 1 is A, A and show 2 is B, B: A is never followed by B.
C15_Witness ==
    /\ bpc = "done"
    /\ df = FrameOf(<< <<"A", "A">>, <<"B", "B">> >>, 1)
    /\ DOMAIN transitions = {"A", "B"}
    /\ DOMAIN transitions["A"] = {"A"}
    /\ DOMAIN transitions["B"] = {"B"}

\* The songs at the first position of a show, in the order of the row stream
FirstSongs(frame) ==
    LET AtFirst(r) == r.position = 1
        firsts == SelectSeq(frame, AtFirst)
    IN  [i \in 1..Len(firsts) |-> firsts[i].song]

\* The most frequent song of a list that is not empty and, among equally
\* frequent songs, the one met first
FirstMostFrequent(list) ==
    LET best == CHOOSE i \in 1..Len(list) :
                    /\ \A j \in 1..Len(list) : Count(list, list[j]) <= Count(list, list[i])
                    /\ \A j \in 1..(i - 1) : Count(list, list[j]) < Count(list, list[i])
    IN  list[best]

C17_StepsFollowTable ==
    (gpc = "returned" /\ DOMAIN gtransitions /= {}) =>
        \A i \in 1..(Len(gsetlist) - 1) :
            LET a == gsetlist[i]
                b == gsetlist[i + 1]
            IN  IF a \in DOMAIN gtransitions
                THEN /\ b \in DOMAIN gtransitions[a]
                     /\ gtransitions[a][b][1] > 0
                ELSE b \in DOMAIN gtransitions

\* Only B has next songs: the walk from A restarts at B whenever it is at A.
C17_Witness ==
    /\ gpc = "returned"
    /\ DOMAIN gtransitions = {"B"}
    /\ DOMAIN gtransitions["B"] = {"A"}
    /\ gsetlist = <<"A", "B", "A", "B">>

----------------------------------------------------------------------------
(* More claims about get_with_backoff *)

\* C18: every backoff sleep is followed by a request of the same url and
\* params before the call returns or fails: a call that has ended has issued
\* one request more than it has slept, all of them the same.
C18_SleepThenRetry ==
    cpc \in {"returned", "raised"} =>
        /\ Len(reqlog) = Len(sleeps) + 1
        /\ \A i \in 1..Len(reqlog) : reqlog[i] = [url |-> url, params |-> params]

----------------------------------------------------------------------------
(* More claims about normalize_setlist_to_rows *)

\* (set index, song index) in lexicographic order
PairLess(p, q) == p[1] < q[1] \/ (p[1] = q[1] /\ p[2] < q[2])

\* C19: the rows returned are one row per song entry, in strictly ascending
\* lexicographic order of (set index, song index), the set index being the
\* 0-based place of the set block in the source and the song index the
\* 0-based place of the song in its block; a block without songs gives no
\* row and still takes its set index.
C19_EmissionOrder ==
    (npc = "done" /\ rows.raised = "none") =>
        LET blocks == setlist.sets.set.items
            songsOf(j) == blocks[j].song.items
            out == rows.rows
            pair(r) == <<out[r].set_index, out[r].song_index>>
        IN  /\ \A r \in 1..(Len(out) - 1) : PairLess(pair(r), pair(r + 1))
            /\ {pair(r) : r \in 1..Len(out)} =
                  UNION {{<<j - 1, i - 1>> : i \in 1..Len(songsOf(j))} : j \in 1..Len(blocks)}
            /\ \A r \in 1..Len(out) :
                  out[r].song_name = Get(songsOf(pair(r)[1] + 1)[pair(r)[2] + 1].name)

\* The first block has no song, the second has B and then A.
C19_Witness ==
    /\ npc = "done"
    /\ rows.raised = "none"
    /\ Len(setlist.sets.set.items) = 2
    /\ setlist.sets.set.items[1].song.items = <<>>
    /\ Len(rows.rows) = 2
    /\ rows.rows[1].set_index = 1 /\ rows.rows[1].song_index = 0
    /\ rows.rows[1].song_name = JStr(<<"B">>)
    /\ rows.rows[2].set_index = 1 /\ rows.rows[2].song_index = 1
    /\ rows.rows[2].song_name = JStr(<<"A">>)

----------------------------------------------------------------------------
(* Claims about the hand-over of the rows to the model building *)

\* C20: a file of at least one row written with the normaliser's columns is
\* accepted by the model building: load_setlists does not fail on it for
\* missing columns, and the columns the builder and the opener read
\* (show_id, position, song) are columns the normaliser emits.
C20_RowsAccepted ==
    (csv.columns = fieldnames /\ csv.rows /= <<>> /\ lpc /= "call") =>
        /\ lpc = "returned"
        /\ {"show_id", "position", "song"} \subseteq Range(fieldnames)

====
